---------------------------- MODULE Spec2Model ----------------------------
(* A state-machine model of src/index.js (NoteMagazineScraper): the pager   *)
(* getMagazineArticles, the metadata resolver getArticleMetadata, the       *)
(* retrying downloaders downloadImage / addImageToZip and the orchestrator  *)
(* main in its directory and ZIP variants.                                  *)
(*                                                                          *)
(* Strings are sequences of tokens (<<"n1", "?", "x", "=", "1">>), so that  *)
(* concatenation, includes() and split() are computed and not assumed.      *)
EXTENDS Integers, Sequences, FiniteSets, TLC

(***************************************************************************)
(* Bounds of the model.                                                    *)
(***************************************************************************)
\* Listing pages the pager may request before the model stops following it.
MaxPage == 4
\* The largest value of downloadImage's retries parameter that is tried.
MaxRetries == 3
\* Calls of downloadImage the driver of DlSpec makes.
MaxCalls == 2
\* Content URLs a run of main collects before the model stops following it.
MaxArticles == 2
\* Images of the largest article the metadata endpoint describes, and of
\* all the articles of a run of main that the model follows.
MaxImages == 5

(***************************************************************************)
(* Strings.                                                                *)
(***************************************************************************)
\* String.prototype.includes for a one-token needle.
Includes(s, tok) == \E i \in 1..Len(s) : s[i] = tok

\* t occurs in s at position p.
OccursAt(s, t, p) == p >= 1 /\ p + Len(t) - 1 <= Len(s) /\ SubSeq(s, p, p + Len(t) - 1) = t

\* String.prototype.includes for a needle of any length.
Contains(s, t) == \E p \in 1..Len(s) : OccursAt(s, t, p)

\* The position of the first tok in s, Len(s) + 1 when there is none.
RECURSIVE IndexOf(_, _)
IndexOf(s, tok) ==
    IF s = <<>> \/ Head(s) = tok THEN 1 ELSE 1 + IndexOf(Tail(s), tok)

\* String.prototype.split for a one-token separator: the parts, in order.
RECURSIVE Split(_, _)
Split(s, tok) ==
    LET p == IndexOf(s, tok)
    IN  IF p > Len(s) THEN <<s>>
        ELSE <<SubSeq(s, 1, p - 1)>> \o Split(SubSeq(s, p + 1, Len(s)), tok)

\* The concatenation of a sequence of sequences, in order.
RECURSIVE Flatten(_)
Flatten(ss) == IF ss = <<>> THEN <<>> ELSE Head(ss) \o Flatten(Tail(ss))

(***************************************************************************)
(* The transport: what one request can come back with.                     *)
(*   kind "error"       request() rejects (transport error)                *)
(*   kind "status"      a response whose statusCode is not 200             *)
(*   kind "undecodable" statusCode 200, body.json() rejects                *)
(*   kind "json"        statusCode 200, a decoded listing body; hasContents*)
(*                      tells whether data.data.section.contents is there  *)
(***************************************************************************)
NoBody == [hasContents |-> FALSE, contents |-> <<>>, last |-> FALSE]

TransportError == [kind |-> "error", status |-> 0, body |-> NoBody]

HttpStatus(s) == [kind |-> "status", status |-> s, body |-> NoBody]

Undecodable == [kind |-> "undecodable", status |-> 200, body |-> NoBody]

Listing(cs, l) ==
    [kind |-> "json", status |-> 200,
     body |-> [hasContents |-> TRUE, contents |-> cs, last |-> l]]

NoContentList(l) ==
    [kind |-> "json", status |-> 200,
     body |-> [hasContents |-> FALSE, contents |-> <<>>, last |-> l]]

\* Entries of a listing page: note_url and key, <<>> when absent (or empty,
\* which JavaScript treats alike in `if (content.note_url)`).
Entry(u, k) == [note_url |-> u, key |-> k]

E_plain == Entry(<<"n1">>, <<>>)
E_keyed == Entry(<<"n2">>, <<"k1">>)
E_query == Entry(<<"n3", "?", "x", "=", "1">>, <<"k2">>)
E_nourl == Entry(<<>>, <<"k3">>)

\* The content lists the listing endpoint answers with in the pager's own
\* specification.
PageContents ==
    { <<>>, <<E_plain>>, <<E_keyed, E_query>>, <<E_nourl>>,
      <<E_query, E_nourl, E_plain>> }

FailedResponses == {TransportError, HttpStatus(404), HttpStatus(500)}

ListingResponses ==
    FailedResponses \cup {Undecodable}
      \cup {NoContentList(l) : l \in BOOLEAN}
      \cup {Listing(cs, l) : cs \in PageContents, l \in BOOLEAN}

(***************************************************************************)
(* State.                                                                  *)
(***************************************************************************)
VARIABLES
    \* getMagazineArticles
    page,        \* let page
    isLastPage,  \* let isLastPage
    articles,    \* const articles: the content URLs pushed so far
    pgPc,        \* "idle", "loop" (inside the while), "returned"
    pgLog,       \* history: the requests made, <<[page, resp], ...>>
    \* the local filesystem under downloads/<magazineId>
    fs,          \* the image files there are: a set of [path, data]
    dirs,        \* the article directories there are
    zipFiles,    \* the archives there are: a set of [path, entries, old]
    \* downloadImage
    dl,          \* the call in progress: [pc, url, path, retries, i, result]
    dlTrace,     \* history: what the call in progress did, in order:
                 \*   "ok" / "status" / "error" per request, "wait" per backoff
    dlCalls,     \* history kept by DlSpec's driver: the calls it made
    \* main
    \* the options of the command line
    volumeOnly,  \* const volumeOnly = args['volume-only'] || false
    volumeDigits,\* const volumeDigits = parseInt(args['volume-digits']) || 2
    \* sanitizeFolderName
    san,         \* the call under study: [pc, name, result, again]
    \* main
    mainPc,      \* where main is: "start", "listing", "resolve", "items",
                 \*   "file", "download", "await", "done", "aborted", "crashed"
    useZip,      \* const useZip = args.zip || false
    idx,         \* position of the for of line 294 in articles
    articleData, \* const articleData
    allImages,   \* const allImages
    downloadedCount, \* let downloadedCount
    item,        \* position of the for of line 321 / 381 in articleData
    imgI,        \* let i of line 386
    chains,      \* per item, the addNextImage chain of its archive
    \* history
    metaLog,     \* the calls of getArticleMetadata: [url, key (the lookup key
                 \*   requested), resp, raised, title, images]
    results      \* per item, the success flags of the assets attempted so far

pgVars == <<page, isLastPage, articles, pgPc, pgLog>>

dlVars == <<dl, dlTrace>>

\* The options of the command line (lines 13-15), which nothing changes
\* once the process runs, and the call of sanitizeFolderName under study,
\* which only SanSpec's driver makes.
cfgVars == <<useZip, volumeOnly, volumeDigits, san>>

mainVars ==
    <<mainPc, cfgVars, idx, articleData, allImages, downloadedCount, item, imgI,
      chains, metaLog, results>>

vars == <<pgVars, fs, dirs, zipFiles, dlVars, dlCalls, mainVars>>

(***************************************************************************)
(* getMagazineArticles (lines 23-84).                                      *)
(***************************************************************************)
\* Lines 57-61: the URL pushed for one entry.
FullUrl(content) ==
    IF content.key # <<>>
      THEN LET separator == IF Includes(content.note_url, "?") THEN "&" ELSE "?"
           IN  content.note_url \o <<separator, "magazine_key", "=">> \o content.key
      ELSE content.note_url

\* Lines 54-64: the URLs one content list adds, in list order.
RECURSIVE PushContents(_)
PushContents(cs) ==
    IF cs = <<>> THEN <<>>
    ELSE (IF Head(cs).note_url # <<>> THEN <<FullUrl(Head(cs))>> ELSE <<>>)
           \o PushContents(Tail(cs))

\* The loop's state after one pass: brk is TRUE when the pass left by break.
Pass(a, p, l, b) == [articles |-> a, page |-> p, isLastPage |-> l, brk |-> b]

\* Lines 43-46 and 77-80: a non-200 status or a thrown error breaks.
OnFailureNoBreak(a, p) == Pass(a, p + 1, FALSE, FALSE)
OnFailure(a, p) == Pass(a, p, FALSE, TRUE)

\* Lines 65-69: a content list that is there and empty.
OnEmptyPageNoBreak(a, p, r) == Pass(a, p + 1, r.body.last, FALSE)
OnEmptyPage(a, p, r) == Pass(a, p, TRUE, TRUE)

\* Lines 52-64, 72-73: a content list with entries.
OnContents(a, p, r) ==
    Pass(a \o PushContents(r.body.contents), p + 1, r.body.last, FALSE)

\* Lines 50, 72-73: no content list; the if is skipped, the flag is read and
\* the page advances.
OnNoContents(a, p, r) == Pass(a, p + 1, r.body.last, FALSE)

\* One pass of the while body (lines 29-80) on response r.
LoopBody(a, p, r) ==
    CASE r.kind = "error" -> OnFailure(a, p)
      [] r.kind = "status" -> OnFailure(a, p)
      [] r.kind = "undecodable" -> OnFailure(a, p)
      [] r.kind = "json" /\ ~r.body.hasContents -> OnNoContents(a, p, r)
      [] r.kind = "json" /\ r.body.hasContents /\ Len(r.body.contents) > 0 ->
            OnContents(a, p, r)
      [] OTHER -> OnEmptyPage(a, p, r)

\* Lines 24-26.
GetMagazineArticlesEnter ==
    /\ pgPc = "idle"
    /\ articles' = <<>>
    /\ page' = 1
    /\ isLastPage' = FALSE
    /\ pgPc' = "loop"
    /\ UNCHANGED pgLog

\* Lines 28-81: one request and the pass it drives, then the while test; the
\* function returns (line 83) once the pass broke or set isLastPage.
GetMagazineArticlesPass(r) ==
    /\ pgPc = "loop"
    /\ ~isLastPage
    /\ page <= MaxPage
    /\ pgLog' = Append(pgLog, [page |-> page, resp |-> r])
    /\ LET o == LoopBody(articles, page, r)
       IN  /\ articles' = o.articles
           /\ page' = o.page
           /\ isLastPage' = o.isLastPage
           /\ pgPc' = IF o.brk \/ o.isLastPage THEN "returned" ELSE "loop"

PagIdle ==
    /\ page = 0
    /\ isLastPage = FALSE
    /\ articles = <<>>
    /\ pgPc = "idle"
    /\ pgLog = <<>>

(***************************************************************************)
(* The filesystem.                                                         *)
(***************************************************************************)
\* existsSync(path).
Exists(path) == \E f \in fs : f.path = path

\* writeFile(path, data): creates the file or replaces its content.
WriteFile(path, data) ==
    {f \in fs : f.path # path} \cup {[path |-> path, data |-> data]}

(***************************************************************************)
(* downloadImage (lines 144-180).                                          *)
(* An asset request comes back "ok" (status 200 and a body that is read),  *)
(* "status" (a status other than 200) or "error" (request() or the reading *)
(* of the body throws: both land in the catch of line 170).                *)
(***************************************************************************)
AssetOutcomes == {"ok", "status", "error"}

\* function downloadImage(url, filePath, retries = 3)
DefaultRetries == 3

DlIdle == [pc |-> "idle", url |-> <<>>, path |-> <<>>, retries |-> 0, i |-> 0,
           result |-> FALSE]

\* The call downloadImage(url, path, retries), about to run line 146.
DlCall(url, path, retries) ==
    [pc |-> "entry", url |-> url, path |-> path, retries |-> retries, i |-> 0,
     result |-> FALSE]

DlReturn(d, value) == [d EXCEPT !.pc = "returned", !.result = value]

\* Line 146: the existence test that skips the download.
SkipsNothing(path) == FALSE
SkipsExisting(path) == Exists(path)

\* Line 150: the for loop's test.
LoopTest(i, retries) == i < retries

\* Lines 163 and 172: the test for the last attempt.
LastAttempt(i, retries) == i = retries - 1

\* Line 161: whether the response's status lets the body be stored.
StatusUnchecked(o) == o # "error"
StatusIs200(o) == o = "ok"

\* Lines 146-150: the existence test, then the first test of the loop.
DownloadImageEntry ==
    /\ dl.pc = "entry"
    /\ dl' = IF SkipsExisting(dl.path) THEN DlReturn(dl, TRUE)
             ELSE IF LoopTest(0, dl.retries) THEN [dl EXCEPT !.pc = "attempt", !.i = 0]
             ELSE DlReturn(dl, FALSE)
    /\ UNCHANGED <<fs, dlTrace>>

\* Lines 151-177: one attempt, its request coming back with o.
DownloadImageAttempt(o) ==
    /\ dl.pc = "attempt"
    /\ dlTrace' = Append(dlTrace, o)
    /\ IF o # "error" /\ StatusIs200(o)
         THEN \* lines 167-169
              /\ fs' = WriteFile(dl.path, dl.url)
              /\ dl' = DlReturn(dl, TRUE)
         ELSE /\ fs' = fs
              /\ dl' = IF LastAttempt(dl.i, dl.retries) THEN DlReturn(dl, FALSE)
                       ELSE IF o = "error" THEN [dl EXCEPT !.pc = "wait"]
                       ELSE \* line 164: continue, then i++ and the loop's test
                            IF LoopTest(dl.i + 1, dl.retries)
                              THEN [dl EXCEPT !.i = dl.i + 1]
                              ELSE DlReturn(dl, FALSE)

\* Line 176, then i++ and the loop's test.
DownloadImageBackoff ==
    /\ dl.pc = "wait"
    /\ dlTrace' = Append(dlTrace, "wait")
    /\ dl' = IF LoopTest(dl.i + 1, dl.retries)
               THEN [dl EXCEPT !.pc = "attempt", !.i = dl.i + 1]
               ELSE DlReturn(dl, FALSE)
    /\ UNCHANGED fs

DownloadImage ==
    \/ DownloadImageEntry
    \/ \E o \in AssetOutcomes : DownloadImageAttempt(o)
    \/ DownloadImageBackoff

(***************************************************************************)
(* Names of the artifacts (lines 323, 358, 383, 388-389).                  *)
(***************************************************************************)
DigitChars == <<"0", "1", "2", "3", "4", "5", "6", "7", "8", "9">>

\* Number.prototype.toString(): the decimal digits of n >= 0.
RECURSIVE Digits(_)
Digits(n) ==
    IF n < 10 THEN <<DigitChars[n + 1]>>
    ELSE Digits(n \div 10) \o <<DigitChars[(n % 10) + 1]>>

\* String.prototype.padStart(width, c), c one character.
PadStart(s, width, c) ==
    IF Len(s) >= width THEN s ELSE [j \in 1..(width - Len(s)) |-> c] \o s

\* padStart(3, '0') of lines 358 and 388.
NameWidth == 3

\* Lines 358 and 388: the name of the image at 0-based index.
ImageNameFromZero(index) == PadStart(Digits(index), NameWidth, "0") \o <<".jpg">>
ImageName(index) == PadStart(Digits(index + 1), NameWidth, "0") \o <<".jpg">>

\* Lines 383 and 389: join(join(baseDir, sanitizedTitle), fileName).
FilePath(dir, name) == [dir |-> dir, name |-> name]

\* Line 323: join(baseDir, `${sanitizedTitle}.zip`).
ZipPath(sanitizedTitle) == sanitizedTitle \o <<".zip">>

\* The content of an image file that was there before the run.
OldData == <<"old">>

(***************************************************************************)
(* sanitizeFolderName without --volume-only (lines 276-277); a title is a  *)
(* sequence of characters.                                                 *)
(***************************************************************************)
\* The class [<>:"/\\|?*].
Forbidden == {"<", ">", ":", "\"", "/", "\\", "|", "?", "*"}

\* The class \s, as far as the titles of the model go.
Whitespace == {" ", "\t", "\n"}

\* replace(/[<>:"/\\|?*]/g, '_')
ReplaceForbidden(s) == [j \in 1..Len(s) |-> IF s[j] \in Forbidden THEN "_" ELSE s[j]]

\* replace(/\s\s/g, ' '): each pair of whitespace characters, not each run.
RECURSIVE CollapsePairs(_)
CollapsePairs(s) ==
    IF s = <<>> THEN <<>>
    ELSE IF Head(s) \in Whitespace /\ Len(s) > 1 /\ s[2] \in Whitespace
      THEN <<" ">> \o CollapsePairs(Tail(Tail(s)))
      ELSE <<Head(s)>> \o CollapsePairs(Tail(s))

\* replace(/\s+/g, ' ')
RECURSIVE CollapseWhitespace(_)
CollapseWhitespace(s) ==
    IF s = <<>> THEN <<>>
    ELSE IF Head(s) \in Whitespace
      THEN IF Len(s) > 1 /\ s[2] \in Whitespace
             THEN CollapseWhitespace(Tail(s))
             ELSE <<" ">> \o CollapseWhitespace(Tail(s))
      ELSE <<Head(s)>> \o CollapseWhitespace(Tail(s))

\* trim()
RECURSIVE TrimStart(_)
TrimStart(s) ==
    IF s # <<>> /\ Head(s) \in Whitespace THEN TrimStart(Tail(s)) ELSE s

RECURSIVE TrimEnd(_)
TrimEnd(s) ==
    IF s # <<>> /\ s[Len(s)] \in Whitespace
      THEN TrimEnd(SubSeq(s, 1, Len(s) - 1)) ELSE s

Trim(s) == TrimEnd(TrimStart(s))

\* Lines 273 and 277: the same chain of replace, replace and trim.
SanitizeDefault(name) == Trim(CollapseWhitespace(ReplaceForbidden(name)))

(***************************************************************************)
(* sanitizeFolderName with --volume-only (lines 247-274). The characters   *)
(* U+7B2C, U+5DFB and U+8A71 of the patterns are written "DAI", "KAN" and  *)
(* "WA".                                                                   *)
(***************************************************************************)
\* parseInt(args['volume-digits']) || 2
DefaultVolumeDigits == 2

\* The class \d.
IsDigit(c) == \E j \in 1..Len(DigitChars) : DigitChars[j] = c

\* t is in the language of \d+(?:\.\d+)? .
IsNumber(t) ==
    \E a \in 1..Len(t) :
        /\ \A j \in 1..a : IsDigit(t[j])
        /\ \/ a = Len(t)
           \/ /\ a + 2 <= Len(t)
              /\ t[a + 1] = "."
              /\ \A j \in (a + 2)..Len(t) : IsDigit(t[j])

\* Lines 249-254: the four patterns, in the order of the array. dai tells
\* whether the pattern starts with U+7B2C, unit is the character it ends with.
Patterns ==
    << [dai |-> TRUE, unit |-> "KAN"], [dai |-> TRUE, unit |-> "WA"],
       [dai |-> FALSE, unit |-> "KAN"], [dai |-> FALSE, unit |-> "WA"] >>

\* The positions e at which a match of pattern pat that starts at i ends
\* with its unit. The number's characters are digits and points and the
\* character after the number is the unit, so there is at most one e and
\* the greedy order of the quantifiers decides nothing.
MatchEnds(s, pat, i) ==
    LET nb == IF pat.dai THEN i + 1 ELSE i
    IN  IF pat.dai /\ s[i] # "DAI" THEN {}
        ELSE {e \in (nb + 1)..Len(s) :
                 /\ s[e] = pat.unit
                 /\ IsNumber(SubSeq(s, nb, e - 1))}

\* Line 257: pattern.exec(name) on a fresh pattern (lastIndex 0): the match
\* that starts leftmost. found is FALSE for null; text is match[0] and
\* number is match[1].
Exec(pat, name) ==
    LET starts == {i \in 1..Len(name) : MatchEnds(name, pat, i) # {}}
    IN  IF starts = {} THEN [found |-> FALSE, text |-> <<>>, number |-> <<>>]
        ELSE LET i == CHOOSE x \in starts : \A y \in starts : x <= y
                 e == CHOOSE x \in MatchEnds(name, pat, i) : TRUE
                 nb == IF pat.dai THEN i + 1 ELSE i
             IN  [found |-> TRUE, text |-> SubSeq(name, i, e),
                  number |-> SubSeq(name, nb, e - 1)]

\* Line 264: number.includes('.')
IntegerOnly(number) == FALSE
HasDecimalPoint(number) == Includes(number, ".")

\* Line 267: number.padStart(volumeDigits, '0')
Unpadded(number) == number
PaddedNumber(number) == PadStart(number, volumeDigits, "0")

\* Lines 259-269: the name built from a match.
VolumeName(match) ==
    LET number == match.number
        prefix == IF match.text[1] = "DAI" THEN <<"DAI">> ELSE <<>>
        suffix == IF Includes(match.text, "KAN") THEN <<"KAN">> ELSE <<"WA">>
    IN  IF HasDecimalPoint(number) THEN prefix \o number \o suffix
        ELSE prefix \o PaddedNumber(number) \o suffix

\* Lines 256-273: the first pattern, in order, that matches gives the name;
\* without a match the name is sanitized as without --volume-only.
RECURSIVE VolumeOnlyName(_, _)
VolumeOnlyName(name, n) ==
    IF n > Len(Patterns) THEN SanitizeDefault(name)
    ELSE LET match == Exec(Patterns[n], name)
         IN  IF match.found THEN VolumeName(match)
             ELSE VolumeOnlyName(name, n + 1)

\* Lines 246-278.
SanitizeFolderName(name) ==
    IF volumeOnly THEN VolumeOnlyName(name, 1) ELSE SanitizeDefault(name)

\* No call of sanitizeFolderName is under study.
SanIdle == [pc |-> "idle", name |-> <<>>, result |-> <<>>, again |-> <<>>]

(***************************************************************************)
(* getArticleMetadata (lines 87-141).                                      *)
(***************************************************************************)
UntitledTitle == <<"U", "n", "t", "i", "t", "l", "e", "d">>

\* One entry of data.data.structuredData.
SdEntry(context, type, contentUrl) ==
    [context |-> context, type |-> type, contentUrl |-> contentUrl]

SdImage(u) == SdEntry("https://schema.org/", "ImageObject", u)

\* n image URLs tagged tag: <<tag, "'">>, <<tag, "'", "'">>, ...
Images(tag, n) == [j \in 1..n |-> <<tag>> \o [q \in 1..j |-> "'"]]

SdImages(tag, n) == [j \in 1..n |-> SdImage(Images(tag, n)[j])]

\* Entries the scan of lines 127-133 passes over.
SdNoise ==
    << SdEntry("https://schema.org/", "Article", <<"p">>),
       SdImage(<<>>),
       SdEntry("http://other/", "ImageObject", <<"q">>) >>

\* A decoded metadata body: data.data present or not, its title (<<>> when
\* absent or empty) and its structuredData (hasSd FALSE when absent).
MetaBody(hasData, title, hasSd, sd) ==
    [hasData |-> hasData, title |-> title, hasSd |-> hasSd, structuredData |-> sd]

B_nodata == MetaBody(FALSE, <<>>, FALSE, <<>>)
B_three ==
    MetaBody(TRUE, <<"a">>, TRUE,
             <<SdNoise[1]>> \o SubSeq(SdImages("x", 3), 1, 2) \o <<SdNoise[2]>>
               \o SubSeq(SdImages("x", 3), 3, 3) \o <<SdNoise[3]>>)
B_none == MetaBody(TRUE, <<"b", ":">>, TRUE, SdNoise)
B_nosd == MetaBody(TRUE, <<"b", ":">>, FALSE, <<>>)
B_same == MetaBody(TRUE, <<" ", "a", "\t", " ">>, TRUE, SdImages("y", 2))
B_big == MetaBody(TRUE, <<>>, TRUE, SdImages("z", MaxImages))

MetaBodies == {B_nodata, B_three, B_none, B_nosd, B_same, B_big}

\* What the metadata request can come back with; kinds as for the listing.
MetaError == [kind |-> "error", status |-> 0, body |-> B_nodata]
MetaStatus(st) == [kind |-> "status", status |-> st, body |-> B_nodata]
MetaUndecodable == [kind |-> "undecodable", status |-> 200, body |-> B_nodata]
MetaJson(b) == [kind |-> "json", status |-> 200, body |-> b]

MetaFailures == {MetaError, MetaStatus(404), MetaUndecodable}

MetaResponses == MetaFailures \cup {MetaJson(b) : b \in MetaBodies}

\* The identifiers bound where lines 113 and 138 are evaluated: those of the
\* module (lines 1-15 and the function declarations) and those of
\* getArticleMetadata. The file is an ES module: a name that is not bound
\* is a ReferenceError when it is evaluated.
ModuleBindings ==
    {"mkdir", "writeFile", "existsSync", "join", "createWriteStream", "request",
     "cliProgress", "minimist", "archiver", "args", "magazineId", "volumeOnly",
     "volumeDigits", "useZip", "getMagazineArticles", "getArticleMetadata",
     "downloadImage", "addImageToZip", "createZipFile", "sanitizeFolderName",
     "main"}

MetadataBindings ==
    {"noteUrl", "magazineKey", "noteUrlEncoded", "url", "body", "statusCode",
     "error"}

IsBound(id) == id \in ModuleBindings \cup MetadataBindings

\* How a call ends: by return of [title, images] or by a thrown error.
Returned(title, images) == [raised |-> FALSE, title |-> title, images |-> images]
Raised == [raised |-> TRUE, title |-> <<>>, images |-> <<>>]

Sentinel == Returned(UntitledTitle, <<>>)

\* Lines 127-133: the content URLs of the image objects, in source order.
RECURSIVE ImageUrls(_)
ImageUrls(sd) ==
    IF sd = <<>> THEN <<>>
    ELSE (IF /\ Head(sd).context = "https://schema.org/"
             /\ Head(sd).type = "ImageObject"
             /\ Head(sd).contentUrl # <<>>
            THEN <<Head(sd).contentUrl>> ELSE <<>>)
           \o ImageUrls(Tail(sd))

\* Lines 119-136.
ParseMetadata(b) ==
    Returned(IF b.hasData /\ b.title # <<>> THEN b.title ELSE UntitledTitle,
             IF b.hasData /\ b.hasSd THEN ImageUrls(b.structuredData) ELSE <<>>)

\* Lines 137-140: the catch block; its log line reads noteId.
CatchBlock == IF IsBound("noteId") THEN Sentinel ELSE Raised

\* Lines 112-115: the log line reads noteId inside the try, so that a
\* ReferenceError there lands in the catch block.
OnBadStatus == IF IsBound("noteId") THEN Sentinel ELSE CatchBlock

\* new URLSearchParams(init).get(name): the value of the first name=value
\* pair of init, split on &, whose name is name; <<>> stands for null, which
\* line 93 turns into ''. A leading ? is dropped.
RECURSIVE FirstValue(_, _)
FirstValue(pairs, name) ==
    IF pairs = <<>> THEN <<>>
    ELSE LET pair == Head(pairs)
             eq == IndexOf(pair, "=")
         IN  IF SubSeq(pair, 1, eq - 1) = <<name>>
               THEN SubSeq(pair, eq + 1, Len(pair))
               ELSE FirstValue(Tail(pairs), name)

SearchParamsGet(init, name) ==
    FirstValue(Split(IF init # <<>> /\ Head(init) = "?" THEN Tail(init) ELSE init,
                     "&"),
               name)

\* Line 90: the text '?magazine_key='.
KeyMarker == <<"?", "magazine_key", "=">>

\* Line 91: const [queryPart] = noteUrl.split('?'), the first of the parts.
QueryPart(noteUrl) == Head(Split(noteUrl, "?"))

\* Lines 88-94.
MagazineKey(noteUrl) ==
    IF Contains(noteUrl, KeyMarker)
      THEN SearchParamsGet(QueryPart(noteUrl), "magazine_key")
      ELSE <<>>

\* encodeURIComponent: the reserved characters of the URLs of the model are
\* escaped; the other tokens stand for runs of unreserved characters.
EncodeToken(tok) ==
    CASE tok = "?" -> "%3F"
      [] tok = "=" -> "%3D"
      [] tok = "&" -> "%26"
      [] tok = "/" -> "%2F"
      [] tok = ":" -> "%3A"
      [] OTHER -> tok

EncodeURIComponent(s) == [j \in 1..Len(s) |-> EncodeToken(s[j])]

\* Line 95: noteUrlEncoded.
NoteUrlEncoded(noteUrl) ==
    EncodeURIComponent(noteUrl \o KeyMarker \o MagazineKey(noteUrl))

\* Lines 99-140, the request having come back with m.
GetArticleMetadata(noteUrl, m) ==
    CASE m.kind = "error" -> CatchBlock
      [] m.kind = "status" -> OnBadStatus
      [] m.kind = "undecodable" -> CatchBlock
      [] OTHER -> ParseMetadata(m.body)

(***************************************************************************)
(* main (lines 281-404).                                                   *)
(***************************************************************************)
\* The listing responses of the runs of main that the model follows.
MainListingResponses ==
    { TransportError, Listing(<<>>, FALSE), Listing(<<E_plain, E_keyed>>, FALSE),
      Listing(<<E_nourl, E_query>>, TRUE) }

ChainNone == [pc |-> "none", imageIndex |-> 0, i |-> 0, errored |-> FALSE,
              settled |-> FALSE]

\* Lines 13-15 when the command line gives none of the options.
NoOptions ==
    /\ useZip = FALSE
    /\ volumeOnly = FALSE
    /\ volumeDigits = DefaultVolumeDigits

MainIdle ==
    /\ mainPc = "idle"
    /\ idx = 0
    /\ articleData = <<>>
    /\ allImages = <<>>
    /\ downloadedCount = 0
    /\ item = 0
    /\ imgI = 0
    /\ chains = <<>>
    /\ metaLog = <<>>
    /\ results = <<>>

DiskEmpty == fs = {} /\ dirs = {} /\ zipFiles = {}

\* The process runs: it has neither ended by an uncaught exception nor is it
\* a model of a single function.
Alive == mainPc \notin {"idle", "crashed"}

\* Line 287: main calls getMagazineArticles.
MainStart ==
    /\ mainPc = "start"
    /\ GetMagazineArticlesEnter
    /\ mainPc' = "listing"
    /\ UNCHANGED <<fs, dirs, zipFiles, dlVars, dlCalls, cfgVars, idx, articleData,
                   allImages, downloadedCount, item, imgI, chains, metaLog,
                   results>>

\* Line 287, awaited: one pass of the pager.
MainListing(r) ==
    /\ mainPc = "listing"
    /\ Len(articles) + Len(PushContents(r.body.contents)) <= MaxArticles
    /\ GetMagazineArticlesPass(r)
    /\ UNCHANGED <<fs, dirs, zipFiles, dlVars, dlCalls, mainVars>>

\* Lines 288-291.
MainListed ==
    /\ mainPc = "listing"
    /\ pgPc = "returned"
    /\ mainPc' = "resolve"
    /\ idx' = 1
    /\ articleData' = <<>>
    /\ allImages' = <<>>
    /\ UNCHANGED <<pgVars, fs, dirs, zipFiles, dlVars, dlCalls, cfgVars,
                   downloadedCount, item, imgI, chains, metaLog, results>>

\* Line 296: the test that keeps an item.
KeepsEveryItem(images) == TRUE
HasImages(images) == Len(images) > 0

\* Lines 294-300: one pass of the for, the metadata request coming back with
\* m. An error thrown by getArticleMetadata leaves main (no try around line
\* 295): main's promise rejects and line 406 prints it.
MainResolve(m) ==
    /\ mainPc = "resolve"
    /\ idx <= Len(articles)
    /\ LET out == GetArticleMetadata(articles[idx], m)
       IN  /\ Len(allImages) + Len(out.images) <= MaxImages
           /\ metaLog' = Append(metaLog,
                  [url |-> articles[idx], key |-> NoteUrlEncoded(articles[idx]),
                   resp |-> m, raised |-> out.raised,
                   title |-> out.title, images |-> out.images])
           /\ IF out.raised
                THEN /\ mainPc' = "aborted"
                     /\ UNCHANGED <<idx, articleData, allImages>>
                ELSE /\ mainPc' = "resolve"
                     /\ idx' = idx + 1
                     /\ IF HasImages(out.images)
                          THEN /\ articleData' = Append(articleData,
                                      [title |-> out.title, images |-> out.images])
                               /\ allImages' = allImages \o out.images
                          ELSE UNCHANGED <<articleData, allImages>>
    /\ UNCHANGED <<pgVars, fs, dirs, zipFiles, dlVars, dlCalls, cfgVars,
                   downloadedCount, item, imgI, chains, results>>

\* Lines 302-317: the for is over; return when there is no image, else set
\* up the progress bar, the counter and the base directory.
MainResolved ==
    /\ mainPc = "resolve"
    /\ idx > Len(articles)
    /\ IF Len(allImages) = 0
         THEN /\ mainPc' = "done"
              /\ UNCHANGED <<downloadedCount, item, chains, results>>
         ELSE /\ mainPc' = "items"
              /\ downloadedCount' = 0
              /\ item' = 1
              /\ chains' = [k \in 1..Len(articleData) |-> ChainNone]
              /\ results' = [k \in 1..Len(articleData) |-> <<>>]
    /\ UNCHANGED <<pgVars, fs, dirs, zipFiles, dlVars, dlCalls, cfgVars, idx,
                   articleData, allImages, imgI, metaLog>>

\* Lines 402-403: both for loops end here.
MainFinish ==
    /\ mainPc = "items"
    /\ item > Len(articleData)
    /\ mainPc' = "done"
    /\ UNCHANGED <<pgVars, fs, dirs, zipFiles, dlVars, dlCalls, cfgVars, idx,
                   articleData, allImages, downloadedCount, item, imgI, chains,
                   metaLog, results>>

(***************************************************************************)
(* Directory mode (lines 381-399).                                         *)
(***************************************************************************)
\* Lines 381-386: mkdir, then the first test of the inner for.
DirItem ==
    /\ mainPc = "items"
    /\ ~useZip
    /\ item <= Len(articleData)
    /\ dirs' = dirs \cup {SanitizeFolderName(articleData[item].title)}
    /\ imgI' = 0
    /\ IF 0 < Len(articleData[item].images)
         THEN mainPc' = "file" /\ item' = item
         ELSE mainPc' = "items" /\ item' = item + 1
    /\ UNCHANGED <<pgVars, fs, zipFiles, dlVars, dlCalls, cfgVars, idx,
                   articleData, allImages, downloadedCount, chains, metaLog,
                   results>>

\* Lines 386-391: the call of downloadImage for image imgI.
DirCall ==
    /\ mainPc = "file"
    /\ imgI < Len(articleData[item].images)
    /\ dl' = DlCall(articleData[item].images[imgI + 1],
                    FilePath(SanitizeFolderName(articleData[item].title),
                             ImageName(imgI)),
                    DefaultRetries)
    /\ dlTrace' = <<>>
    /\ mainPc' = "download"
    /\ UNCHANGED <<pgVars, fs, dirs, zipFiles, dlCalls, cfgVars, idx, articleData,
                   allImages, downloadedCount, item, imgI, chains, metaLog,
                   results>>

\* Line 393: the counter after a success.
CountTwice(n) == n + 2
CountUp(n) == n + 1

\* Lines 391-398: the call returned; count a success, then i++ and the test
\* of the inner for, which hands over to the next item when it fails.
DirAfter ==
    /\ mainPc = "download"
    /\ dl.pc = "returned"
    /\ downloadedCount' = IF dl.result THEN CountUp(downloadedCount)
                          ELSE downloadedCount
    /\ results' = [results EXCEPT ![item] = Append(@, dl.result)]
    /\ dl' = DlIdle
    /\ dlTrace' = <<>>
    /\ IF imgI + 1 < Len(articleData[item].images)
         THEN /\ imgI' = imgI + 1
              /\ mainPc' = "file"
              /\ item' = item
         ELSE /\ imgI' = imgI + 1
              /\ mainPc' = "items"
              /\ item' = item + 1
    /\ UNCHANGED <<pgVars, fs, dirs, zipFiles, dlCalls, cfgVars, idx, articleData,
                   allImages, chains, metaLog>>

(***************************************************************************)
(* ZIP mode (lines 321-377) and addImageToZip (lines 183-214).             *)
(* The promise of line 338 settles once: resolve on the output's 'close',  *)
(* reject on the archive's 'error'. The chain of addNextImage calls is not *)
(* awaited by anything, so it goes on after the promise has settled.       *)
(***************************************************************************)
ZipExists(path) == \E z \in zipFiles : z.path = path

ZipOf(k) == ZipPath(SanitizeFolderName(articleData[k].title))

\* archive.append(buffer, {name}) on the archive written to path.
ArchiveAppend(path, name, data) ==
    {IF z.path = path
       THEN [z EXCEPT !.entries = Append(@, [name |-> name, data |-> data])]
       ELSE z : z \in zipFiles}

\* Line 333: createWriteStream(zipPath) opens with flag 'w': the file is
\* created, or emptied when it is there.
CreateWriteStream(path) ==
    {z \in zipFiles : z.path # path}
      \cup {[path |-> path, entries |-> <<>>, old |-> FALSE, closed |-> FALSE]}

\* Line 326: the existence test that skips the item.
NeverSkipsZip(path) == FALSE
SkipsExistingZip(path) == ZipExists(path)

\* Line 327: the counter after a skipped item of n images.
SkipCountsNothing(count, n) == count
SkipCount(count, n) == count + n

\* Lines 321-372: the next item. An archive that exists skips it; else the
\* output stream and the archive are created and addNextImage is called
\* (line 372), which runs up to the request of the first image (or to
\* finalize, lines 352-354, when there is none), and main waits on the
\* promise.
ZipItem ==
    /\ mainPc = "items"
    /\ useZip
    /\ item <= Len(articleData)
    /\ IF SkipsExistingZip(ZipOf(item))
         THEN /\ downloadedCount' =
                     SkipCount(downloadedCount, Len(articleData[item].images))
              /\ item' = item + 1
              /\ UNCHANGED <<mainPc, zipFiles, chains>>
         ELSE /\ zipFiles' = CreateWriteStream(ZipOf(item))
              /\ chains' = [chains EXCEPT ![item] =
                     [ChainNone EXCEPT !.pc =
                         IF 0 >= Len(articleData[item].images)
                           THEN "finalized" ELSE "attempt"]]
              /\ mainPc' = "await"
              /\ UNCHANGED <<downloadedCount, item>>
    /\ UNCHANGED <<pgVars, fs, dirs, dlVars, dlCalls, cfgVars, idx, articleData,
                   allImages, imgI, metaLog, results>>

\* Lines 352-355 and 357-360 after imageIndex++ (line 368): finalize when the
\* images are used up, else the request of the next image.
FinalizesEarly(c, n) ==
    IF c.imageIndex + 1 >= n - 1
      THEN [c EXCEPT !.pc = "finalized", !.imageIndex = c.imageIndex + 1, !.i = 0]
      ELSE [c EXCEPT !.pc = "attempt", !.imageIndex = c.imageIndex + 1, !.i = 0]
AddNextImage(c, n) ==
    IF c.imageIndex + 1 >= n
      THEN [c EXCEPT !.pc = "finalized", !.imageIndex = c.imageIndex + 1, !.i = 0]
      ELSE [c EXCEPT !.pc = "attempt", !.imageIndex = c.imageIndex + 1, !.i = 0]

\* Lines 185-211 and 360-369: one attempt of addImageToZip in the chain of
\* item k, its request coming back with o; when addImageToZip returns, the
\* chain counts a success and goes to the next image.
ZipAttempt(k, o) ==
    /\ Alive
    /\ k \in 1..Len(chains)
    /\ chains[k].pc = "attempt"
    /\ LET c == chains[k]
           n == Len(articleData[k].images)
       IN  IF o # "error" /\ StatusIs200(o)
             THEN \* lines 201-203, 361-363
                  /\ zipFiles' = ArchiveAppend(ZipOf(k), ImageName(c.imageIndex),
                                               articleData[k].images[c.imageIndex + 1])
                  /\ downloadedCount' = CountUp(downloadedCount)
                  /\ results' = [results EXCEPT ![k] = Append(@, TRUE)]
                  /\ chains' = [chains EXCEPT ![k] = AddNextImage(c, n)]
             ELSE IF LastAttempt(c.i, DefaultRetries)
               THEN \* lines 197 / 206-208, 365
                    /\ results' = [results EXCEPT ![k] = Append(@, FALSE)]
                    /\ chains' = [chains EXCEPT ![k] = AddNextImage(c, n)]
                    /\ UNCHANGED <<zipFiles, downloadedCount>>
               ELSE \* line 198 (continue) or line 210 (wait); the loop's test
                    \* of line 184 holds after either, i being below retries - 1
                    /\ chains' = [chains EXCEPT ![k] =
                          IF o = "error" THEN [c EXCEPT !.pc = "wait"]
                          ELSE [c EXCEPT !.i = c.i + 1]]
                    /\ UNCHANGED <<zipFiles, downloadedCount, results>>
    /\ UNCHANGED <<pgVars, fs, dirs, dlVars, dlCalls, mainPc, cfgVars, idx,
                   articleData, allImages, item, imgI, metaLog>>

\* Line 210, then i++ and the loop's test.
ZipBackoff(k) ==
    /\ Alive
    /\ k \in 1..Len(chains)
    /\ chains[k].pc = "wait"
    /\ chains' = [chains EXCEPT ![k] = [@ EXCEPT !.pc = "attempt", !.i = @ + 1]]
    /\ UNCHANGED <<pgVars, fs, dirs, zipFiles, dlVars, dlCalls, mainPc, cfgVars,
                   idx, articleData, allImages, downloadedCount, item, imgI,
                   metaLog, results>>

\* Lines 339-341: after finalize the output closes; resolve() lets main go
\* on to the next item unless the promise had been rejected before.
ZipClose(k) ==
    /\ Alive
    /\ k \in 1..Len(chains)
    /\ chains[k].pc = "finalized"
    /\ chains' = [chains EXCEPT ![k] = [@ EXCEPT !.pc = "closed", !.settled = TRUE]]
    /\ zipFiles' = {IF z.path = ZipOf(k) THEN [z EXCEPT !.closed = TRUE] ELSE z :
                      z \in zipFiles}
    /\ IF ~chains[k].settled
         THEN mainPc' = "items" /\ item' = item + 1
         ELSE UNCHANGED <<mainPc, item>>
    /\ UNCHANGED <<pgVars, fs, dirs, dlVars, dlCalls, cfgVars, idx, articleData,
                   allImages, downloadedCount, imgI, metaLog, results>>

\* Lines 343-345 and 374-376: the archive emits 'error'; reject(err) throws
\* at the await of line 338 unless the promise had settled, the catch logs
\* and the for goes on to the next item. Nothing stops the chain.
ArchiveError(k) ==
    /\ Alive
    /\ k \in 1..Len(chains)
    /\ chains[k].pc \in {"attempt", "wait", "finalized"}
    /\ ~chains[k].errored
    /\ chains' = [chains EXCEPT ![k] = [@ EXCEPT !.errored = TRUE, !.settled = TRUE]]
    /\ IF ~chains[k].settled
         THEN mainPc' = "items" /\ item' = item + 1
         ELSE UNCHANGED <<mainPc, item>>
    /\ UNCHANGED <<pgVars, fs, dirs, zipFiles, dlVars, dlCalls, cfgVars, idx,
                   articleData, allImages, downloadedCount, imgI, metaLog,
                   results>>

\* Line 333: the stream of createWriteStream has no 'error' listener of the
\* program's, so an error of the output (it cannot be opened, a write fails)
\* is an uncaught exception, which ends the process. The model lets the
\* output fail where it is opened and where its last bytes are written.
OutputError(k) ==
    /\ Alive
    /\ k \in 1..Len(chains)
    /\ \/ chains[k].pc = "attempt" /\ chains[k].imageIndex = 0 /\ chains[k].i = 0
       \/ chains[k].pc = "finalized"
    /\ mainPc' = "crashed"
    /\ UNCHANGED <<pgVars, fs, dirs, zipFiles, dlVars, dlCalls, cfgVars, idx,
                   articleData, allImages, downloadedCount, item, imgI, chains,
                   metaLog, results>>

(***************************************************************************)
(* Spec: a run of main, in either mode, on a downloads directory that may  *)
(* hold artifacts of an earlier run.                                       *)
(***************************************************************************)
\* Image files an earlier run may have left.
OldFiles ==
    { FilePath(<<"a">>, ImageName(1)), FilePath(UntitledTitle, ImageName(2)) }

\* Archives an earlier run may have left.
OldZips == { ZipPath(<<"a">>), ZipPath(UntitledTitle) }

Init ==
    /\ PagIdle
    /\ dl = DlIdle /\ dlTrace = <<>> /\ dlCalls = <<>>
    /\ mainPc = "start"
    /\ useZip \in BOOLEAN
    /\ volumeOnly \in BOOLEAN
    /\ volumeDigits = DefaultVolumeDigits
    /\ san = SanIdle
    /\ \E old \in SUBSET (IF useZip THEN {} ELSE OldFiles) :
          /\ fs = {[path |-> p, data |-> OldData] : p \in old}
          /\ dirs = {p.dir : p \in old}
    /\ \E old \in SUBSET (IF useZip THEN OldZips ELSE {}) :
          zipFiles = {[path |-> p, entries |-> <<>>, old |-> TRUE, closed |-> TRUE] :
                        p \in old}
    /\ idx = 0
    /\ articleData = <<>>
    /\ allImages = <<>>
    /\ downloadedCount = 0
    /\ item = 0
    /\ imgI = 0
    /\ chains = <<>>
    /\ metaLog = <<>>
    /\ results = <<>>

Next ==
    \/ MainStart
    \/ \E r \in MainListingResponses : MainListing(r)
    \/ MainListed
    \/ \E m \in MetaResponses : MainResolve(m)
    \/ MainResolved
    \/ MainFinish
    \/ DirItem
    \/ DirCall
    \/ DownloadImage
         /\ mainPc = "download"
         /\ UNCHANGED <<pgVars, dirs, zipFiles, dlCalls, mainVars>>
    \/ DirAfter
    \/ ZipItem
    \/ \E k \in 1..MaxArticles, o \in AssetOutcomes : ZipAttempt(k, o)
    \/ \E k \in 1..MaxArticles : ZipBackoff(k)
    \/ \E k \in 1..MaxArticles : ZipClose(k)
    \/ \E k \in 1..MaxArticles : ArchiveError(k)
    \/ \E k \in 1..MaxArticles : OutputError(k)

Spec == Init /\ [][Next]_vars

(***************************************************************************)
(* PagSpec: getMagazineArticles alone, against every listing response.     *)
(***************************************************************************)
PagInit ==
    /\ PagIdle
    /\ DiskEmpty
    /\ dl = DlIdle /\ dlTrace = <<>> /\ dlCalls = <<>>
    /\ MainIdle /\ NoOptions /\ san = SanIdle

PagNext ==
    \/ GetMagazineArticlesEnter
          /\ UNCHANGED <<fs, dirs, zipFiles, dlVars, dlCalls, mainVars>>
    \/ \E r \in ListingResponses :
          GetMagazineArticlesPass(r)
            /\ UNCHANGED <<fs, dirs, zipFiles, dlVars, dlCalls, mainVars>>

PagSpec == PagInit /\ [][PagNext]_vars

(***************************************************************************)
(* DlSpec: a driver calls downloadImage up to MaxCalls times, on one of two*)
(* destinations, with any retries in 0..MaxRetries, on a directory where   *)
(* any of the destinations may already exist.                              *)
(***************************************************************************)
Destinations == {FilePath(<<"a">>, ImageName(0)), FilePath(<<"a">>, ImageName(1))}

\* The URL the driver's n-th call asks for: <<"img", "'", ..., "'">>, one
\* mark per call, so that each call would store a body of its own.
CallUrl(n) == <<"img">> \o [j \in 1..n |-> "'"]

DlInit ==
    /\ PagIdle
    /\ \E old \in SUBSET Destinations :
          fs = {[path |-> p, data |-> OldData] : p \in old}
    /\ dirs = {<<"a">>}
    /\ zipFiles = {}
    /\ dl = DlIdle /\ dlTrace = <<>> /\ dlCalls = <<>>
    /\ MainIdle /\ NoOptions /\ san = SanIdle

\* The driver makes a call and notes it, with whether the destination was
\* there when the call was made.
DriverCall(path, retries) ==
    /\ dl.pc = "idle"
    /\ Len(dlCalls) < MaxCalls
    /\ dl' = DlCall(CallUrl(Len(dlCalls) + 1), path, retries)
    /\ dlTrace' = <<>>
    /\ dlCalls' = Append(dlCalls,
          [url |-> CallUrl(Len(dlCalls) + 1), path |-> path, retries |-> retries,
           existed |-> Exists(path), done |-> FALSE, trace |-> <<>>,
           result |-> FALSE])
    /\ UNCHANGED <<pgVars, fs, dirs, zipFiles, mainVars>>

\* The driver takes the result and notes what the call did.
DriverReturn ==
    /\ dl.pc = "returned"
    /\ dlCalls' = [dlCalls EXCEPT ![Len(dlCalls)] =
          [@ EXCEPT !.done = TRUE, !.trace = dlTrace, !.result = dl.result]]
    /\ dl' = DlIdle
    /\ dlTrace' = <<>>
    /\ UNCHANGED <<pgVars, fs, dirs, zipFiles, mainVars>>

DlNext ==
    \/ \E p \in Destinations, r \in 0..MaxRetries : DriverCall(p, r)
    \/ DownloadImage /\ UNCHANGED <<pgVars, dirs, zipFiles, dlCalls, mainVars>>
    \/ DriverReturn

DlSpec == DlInit /\ [][DlNext]_vars

(***************************************************************************)
(* SanSpec: a driver calls sanitizeFolderName on a title, then on what the *)
(* call returned, under any setting of --volume-only and --volume-digits.  *)
(* The title is drawn when the driver starts.                              *)
(***************************************************************************)
\* Fragments a title is put together from, at most MaxParts of them.
MaxParts == 3
\* The largest --volume-digits that is tried.
MaxDigits == 4

D12K == <<"DAI", "1", "2", "KAN">>

N35W == <<"3", ".", "5", "WA">>

Fragments ==
    { D12K, N35W, <<"DAI", "7", "KAN">>, <<"DAI">>, <<"1">>, <<"WA">>,
      <<"7", "KAN">>, <<".">>, <<"x">>, <<" ">>, <<"\t", " ", "\n">>, <<":">> }

Titles ==
    {Flatten(parts) : parts \in UNION {[1..n -> Fragments] : n \in 0..MaxParts}}

\* The driver holds a title it has not sanitized yet.
SanInit ==
    /\ PagIdle
    /\ DiskEmpty
    /\ dl = DlIdle /\ dlTrace = <<>> /\ dlCalls = <<>>
    /\ MainIdle
    /\ useZip = FALSE
    /\ volumeOnly \in BOOLEAN
    /\ volumeDigits \in 1..MaxDigits
    /\ \E title \in Titles : san = [SanIdle EXCEPT !.name = title]

\* The driver calls sanitizeFolderName on its title.
SanCall ==
    /\ san.pc = "idle"
    /\ san' = [san EXCEPT !.pc = "once", !.result = SanitizeFolderName(san.name)]
    /\ UNCHANGED <<pgVars, fs, dirs, zipFiles, dlVars, dlCalls, mainPc, useZip,
                   volumeOnly, volumeDigits, idx, articleData, allImages,
                   downloadedCount, item, imgI, chains, metaLog, results>>

\* The driver calls sanitizeFolderName on the result of the first call.
SanAgain ==
    /\ san.pc = "once"
    /\ san' = [san EXCEPT !.pc = "twice", !.again = SanitizeFolderName(san.result)]
    /\ UNCHANGED <<pgVars, fs, dirs, zipFiles, dlVars, dlCalls, mainPc, useZip,
                   volumeOnly, volumeDigits, idx, articleData, allImages,
                   downloadedCount, item, imgI, chains, metaLog, results>>

SanNext ==
    \/ SanCall
    \/ SanAgain

SanSpec == SanInit /\ [][SanNext]_vars

(***************************************************************************)
(* Claims about getMagazineArticles, read off the request history pgLog.   *)
(***************************************************************************)
\* What the passes over the first n logged responses pushed, in page order
\* and in-page order.
Collected(n) == Flatten([j \in 1..n |-> PushContents(pgLog[j].resp.body.contents)])

\* The logged requests are for pages 1, 2, ... in turn, each once.
PagesInTurn == \A j \in 1..Len(pgLog) : pgLog[j].page = j

IsEmptyPage(r) == r.kind = "json" /\ r.body.hasContents /\ r.body.contents = <<>>

IsOpenPage(r) ==
    r.kind = "json" /\ r.body.hasContents /\ r.body.contents # <<>> /\ ~r.body.last

IsMissingOrUndecodable(r) ==
    r.kind = "undecodable" \/ (r.kind = "json" /\ ~r.body.hasContents)

IsFailure(r) == r.kind \in {"error", "status"}

\* C3: a 200 response with no content list, or one that cannot be decoded,
\* is the last request of the run of getMagazineArticles, which returns what
\* it had collected before that page.
C3_MissingListStopsPagination ==
    \A i \in 1..Len(pgLog) :
        IsMissingOrUndecodable(pgLog[i].resp) =>
            /\ Len(pgLog) = i
            /\ pgPc = "returned"
            /\ articles = Collected(i - 1)

\* C4: when pages 1..k-1 are non-empty without the last-page flag and page k
\* has an empty content list, exactly pages 1..k are requested and the URLs
\* of pages 1..k-1 are returned in order, whatever page k's flag says.
C4_EmptyPageEndsPagination ==
    \A k \in 1..Len(pgLog) :
        (/\ IsEmptyPage(pgLog[k].resp)
         /\ \A j \in 1..(k - 1) : IsOpenPage(pgLog[j].resp)) =>
            /\ Len(pgLog) = k
            /\ PagesInTurn
            /\ pgPc = "returned"
            /\ articles = Collected(k - 1)

\* Page 3 is empty after two non-empty pages, under either value of its flag.
C4_Witness ==
    /\ Len(pgLog) = 3
    /\ IsOpenPage(pgLog[1].resp) /\ IsOpenPage(pgLog[2].resp)
    /\ IsEmptyPage(pgLog[3].resp) /\ ~pgLog[3].resp.body.last
    /\ Len(articles) >= 3
    /\ pgPc = "returned"

\* C5: a transport error or a non-200 status on page p ends pagination at
\* once: page p was requested once, nothing after it, and the URLs of pages
\* 1..p-1 are returned.
C5_FailureAbortsPagination ==
    \A p \in 1..Len(pgLog) :
        IsFailure(pgLog[p].resp) =>
            /\ Len(pgLog) = p
            /\ PagesInTurn
            /\ pgPc = "returned"
            /\ articles = Collected(p - 1)

\* Page 3 fails after two pages that pushed URLs.
C5_Witness ==
    /\ Len(pgLog) = 3
    /\ IsFailure(pgLog[3].resp)
    /\ Len(articles) >= 2
    /\ pgPc = "returned"

(***************************************************************************)
(* Claims about downloadImage, read off the calls DlSpec's driver noted.   *)
(***************************************************************************)
IsRequest(ev) == ev # "wait"

\* The requests of a call, in order, without its backoff waits.
Requests(call) == SelectSeq(call.trace, IsRequest)

DoneCalls == {c \in 1..Len(dlCalls) : dlCalls[c].done}

\* C6: a call on a destination that exists returns success without a
\* request; so of two calls on one destination, the first of which found no
\* file and got status 200 on its first attempt, both return success and
\* they make one request in total.
C6_IdempotentOnDestination ==
    /\ \A c \in DoneCalls :
          dlCalls[c].existed =>
              dlCalls[c].result /\ Len(Requests(dlCalls[c])) = 0
    /\ \A j, k \in DoneCalls :
          (/\ j < k
           /\ dlCalls[j].path = dlCalls[k].path
           /\ ~dlCalls[j].existed
           /\ Len(dlCalls[j].trace) > 0
           /\ dlCalls[j].trace[1] = "ok") =>
              /\ dlCalls[j].result /\ dlCalls[k].result
              /\ Len(Requests(dlCalls[j])) + Len(Requests(dlCalls[k])) = 1

\* Two calls in a row on a destination that was not there: the first stores
\* the body of its first response, the second makes no request.
C6_Witness ==
    /\ Len(dlCalls) = 2
    /\ DoneCalls = {1, 2}
    /\ dlCalls[1].path = dlCalls[2].path
    /\ ~dlCalls[1].existed
    /\ dlCalls[1].trace = <<"ok">>
    /\ dlCalls[2].retries > 0
    /\ dlCalls[2].trace = <<>>
    /\ dlCalls[2].result

\* C7: on a destination that is not there, a call with retries = R makes R
\* requests and returns failure when no attempt gets status 200; when attempt
\* k is the first to get status 200 the call makes k requests, stores that
\* body at the destination and returns success.
C7_RetriesExactly ==
    \A c \in DoneCalls :
        ~dlCalls[c].existed =>
            LET call == dlCalls[c]
                reqs == Requests(call)
            IN  /\ (\A i \in 1..Len(reqs) : reqs[i] # "ok") =>
                        Len(reqs) = call.retries /\ ~call.result
                /\ \A k \in 1..Len(reqs) :
                        (reqs[k] = "ok" /\ \A i \in 1..(k - 1) : reqs[i] # "ok") =>
                            /\ k <= call.retries
                            /\ Len(reqs) = k
                            /\ call.result
                            /\ [path |-> call.path, data |-> call.url] \in fs

\* One call spends its three attempts on a mix of bad statuses and transport
\* errors; another succeeds on its third attempt after one of each.
C7_Witness ==
    /\ Len(dlCalls) = 2
    /\ DoneCalls = {1, 2}
    /\ ~dlCalls[1].existed /\ ~dlCalls[2].existed
    /\ dlCalls[1].retries = 3 /\ dlCalls[2].retries = 3
    /\ Requests(dlCalls[1]) = <<"error", "status", "status">>
    /\ ~dlCalls[1].result
    /\ Requests(dlCalls[2]) = <<"status", "error", "ok">>
    /\ dlCalls[2].result

(***************************************************************************)
(* Claims about getArticleMetadata and main, checked on the runs of Spec.  *)
(***************************************************************************)
\* The name the claims give the asset at 1-based position p < 1000: its
\* three decimal digits, then .jpg.
ThreeDigits(p) ==
    << DigitChars[((p \div 100) % 10) + 1], DigitChars[((p \div 10) % 10) + 1],
       DigitChars[(p % 10) + 1], ".jpg" >>

\* C1: no call of getArticleMetadata raises, and a call whose request failed
\* (a status other than 200, a transport error, an undecodable body) returns
\* the sentinel { title: "Untitled", images: [] }.
C1_MetadataNeverRaises ==
    \A j \in 1..Len(metaLog) :
        /\ ~metaLog[j].raised
        /\ metaLog[j].resp \in MetaFailures =>
              metaLog[j].title = UntitledTitle /\ metaLog[j].images = <<>>

\* C2: a metadata request that fails does not end the run: the for of line
\* 294 goes on to the content URLs after it.
C2_MetadataFailureRecovered ==
    \A j \in 1..Len(metaLog) :
        metaLog[j].resp \in MetaFailures => mainPc # "aborted" /\ idx > j

\* C8: downloadedCount never decreases and never exceeds the number of
\* images found by the metadata resolution.
C8_ProgressMonotoneAndBounded ==
    /\ [](downloadedCount <= Len(allImages))
    /\ [][downloadedCount' >= downloadedCount]_vars

\* ZIP mode, two items whose sanitized titles collide: the archive of the
\* first had an error, so that its chain went on while the second item was
\* skipped for the archive being there, and every image got counted.
C8_Witness ==
    /\ useZip
    /\ mainPc = "done"
    /\ Len(chains) = 2
    /\ ZipOf(1) = ZipOf(2)
    /\ chains[1].errored
    /\ chains[2].pc = "none"
    /\ Len(results[1]) = Len(articleData[1].images)
    /\ downloadedCount = Len(allImages)

\* The entries an archive holds once the assets of item k have had the
\* results rs: one per success, named by its position, in order.
RECURSIVE EntriesFor(_, _, _)
EntriesFor(k, rs, p) ==
    IF p > Len(rs) THEN <<>>
    ELSE (IF rs[p] THEN <<[name |-> ThreeDigits(p), data |-> articleData[k].images[p]]>>
          ELSE <<>>) \o EntriesFor(k, rs, p + 1)

Names(entries) == [j \in 1..Len(entries) |-> entries[j].name]

OnlyThirdFailed == <<TRUE, TRUE, FALSE, TRUE, TRUE>>

Names1245 ==
    << <<"0", "0", "1", ".jpg">>, <<"0", "0", "2", ".jpg">>,
       <<"0", "0", "4", ".jpg">>, <<"0", "0", "5", ".jpg">> >>

\* C9: the asset at position p of an item is stored under the three-digit p
\* and .jpg, whatever became of the other assets. Directory mode: an asset
\* that succeeded has its file under that name, and every file written by
\* the run holds the asset of the position its name says. ZIP mode: the
\* entries of an item's archive are those of its successes, under the names
\* of their positions, in order. With five assets of which only the third
\* fails, the names are 001, 002, 004, 005.
C9_NamesKeepPositions ==
    /\ \A k \in 1..Len(results) : \A p \in 1..Len(results[k]) :
          (~useZip /\ results[k][p]) =>
              Exists(FilePath(SanitizeFolderName(articleData[k].title), ThreeDigits(p)))
    /\ \A f \in fs :
          f.data # OldData =>
              \E k \in 1..Len(articleData) : \E p \in 1..Len(articleData[k].images) :
                  /\ f.data = articleData[k].images[p]
                  /\ f.path = FilePath(SanitizeFolderName(articleData[k].title),
                                       ThreeDigits(p))
    /\ \A k \in 1..Len(chains) : \A z \in zipFiles :
          (chains[k].pc # "none" /\ z.path = ZipOf(k)) =>
              /\ z.entries = EntriesFor(k, results[k], 1)
              /\ (Len(articleData[k].images) = 5 /\ results[k] = OnlyThirdFailed) =>
                    Names(z.entries) = Names1245
    /\ (/\ ~useZip
        /\ Len(results) = 1
        /\ Len(articleData[1].images) = 5
        /\ results[1] = OnlyThirdFailed
        /\ \A f \in fs : f.data # OldData) =>
              {f.path : f \in fs} =
                  {FilePath(SanitizeFolderName(articleData[1].title), Names1245[j]) :
                     j \in 1..4}

\* An archive of five assets is closed with its third asset failed.
C9_Witness ==
    /\ useZip
    /\ \E k \in 1..Len(chains) :
          /\ chains[k].pc = "closed"
          /\ Len(articleData[k].images) = 5
          /\ results[k] = OnlyThirdFailed
          /\ \E z \in zipFiles : z.path = ZipOf(k) /\ Len(z.entries) = 4

Names123 ==
    << <<"0", "0", "1", ".jpg">>, <<"0", "0", "2", ".jpg">>,
       <<"0", "0", "3", ".jpg">> >>

\* The run of the end-to-end scenario: page 1 lists two items, page 2 is
\* empty, one item resolves to three images and the other to none, nothing
\* was on the disk, every asset was fetched and no archive had an error.
EndToEndRun ==
    /\ Len(pgLog) = 2
    /\ IsOpenPage(pgLog[1].resp) /\ Len(pgLog[1].resp.body.contents) = 2
    /\ IsEmptyPage(pgLog[2].resp)
    /\ Len(metaLog) = 2
    /\ \A j \in 1..2 : metaLog[j].resp.kind = "json"
    /\ {Len(metaLog[1].images), Len(metaLog[2].images)} = {0, 3}
    /\ \A f \in fs : f.data # OldData
    /\ \A z \in zipFiles : ~z.old
    /\ \A k \in 1..Len(results) : \A p \in 1..Len(results[k]) : results[k][p]
    /\ \A k \in 1..Len(chains) : ~chains[k].errored
    /\ mainPc = "done"

\* C10: the end-to-end run ends with one item materialized, as one directory
\* or one archive holding 001, 002, 003 and nothing else, nothing for the
\* item without images, and a progress count of 3.
C10_EndToEnd ==
    EndToEndRun =>
        /\ Len(articleData) = 1
        /\ downloadedCount = 3
        /\ useZip =>
              /\ fs = {} /\ dirs = {}
              /\ Cardinality(zipFiles) = 1
              /\ \A z \in zipFiles :
                    z.path = ZipOf(1) /\ z.closed /\ Names(z.entries) = Names123
        /\ ~useZip =>
              /\ zipFiles = {}
              /\ dirs = {SanitizeFolderName(articleData[1].title)}
              /\ {f.path : f \in fs} =
                    {FilePath(SanitizeFolderName(articleData[1].title), Names123[j]) :
                       j \in 1..3}

\* The end-to-end run in ZIP mode, the item without images listed first.
C10_Witness ==
    /\ EndToEndRun
    /\ useZip
    /\ Len(metaLog[1].images) = 0
    /\ downloadedCount = 3

(***************************************************************************)
(* Claims about sanitizeFolderName, read off the call SanSpec's driver     *)
(* made.                                                                   *)
(***************************************************************************)
\* The digits 12 left-padded with zeros to width w, never cut.
Padded12(w) == [j \in 1..(IF w > 2 THEN w - 2 ELSE 0) |-> "0"] \o <<"1", "2">>

\* C14 as stated: for every title that contains U+7B2C 12 U+5DFB, the
\* volume-only name is that text for width 2 and, with 0012 for the number,
\* for width 4.
C14_EveryTitleContaining ==
    (san.pc # "idle" /\ volumeOnly /\ Contains(san.name, D12K)) =>
        /\ volumeDigits = 2 => san.result = D12K
        /\ volumeDigits = 4 => san.result = <<"DAI", "0", "0", "1", "2", "KAN">>

\* The title contains D12K with no U+5DFB before that occurrence.
Has12AsFirstKan(name) ==
    \E p \in 1..Len(name) :
        /\ OccursAt(name, D12K, p)
        /\ \A q \in 1..(p + 2) : name[q] # "KAN"

\* C14, amended: for every title that contains U+7B2C 12 U+5DFB with no
\* U+5DFB before that occurrence, the volume-only name is U+7B2C, then 12
\* left-padded with zeros to the digit width and never cut, then U+5DFB:
\* the text itself for width 2, with 0012 for width 4.
C14_FirstVolumePadded ==
    (san.pc # "idle" /\ volumeOnly /\ Has12AsFirstKan(san.name)) =>
        /\ san.result = <<"DAI">> \o Padded12(volumeDigits) \o <<"KAN">>
        /\ volumeDigits = 2 => san.result = D12K
        /\ volumeDigits = 4 => san.result = <<"DAI", "0", "0", "1", "2", "KAN">>

\* A title with text before and after the volume, sanitized with width 4.
C14_Witness ==
    /\ san.pc = "once"
    /\ volumeOnly
    /\ volumeDigits = 4
    /\ san.name = <<"x">> \o D12K \o <<"DAI", "7", "KAN">>
    /\ san.result = <<"DAI", "0", "0", "1", "2", "KAN">>

\* C15 as stated: for every title that contains 3.5 U+8A71 the volume-only
\* name is that text, whatever the digit width.
C15_EveryTitleContaining ==
    (san.pc # "idle" /\ volumeOnly /\ Contains(san.name, N35W)) =>
        san.result = N35W

\* The title contains N35W with no digit right before it and no U+8A71
\* before it, and contains neither U+7B2C nor U+5DFB.
Has35AsOnlyMatch(name) ==
    /\ ~Includes(name, "DAI")
    /\ ~Includes(name, "KAN")
    /\ \E p \in 1..Len(name) :
          /\ OccursAt(name, N35W, p)
          /\ \A q \in 1..(p + 2) : name[q] # "WA"
          /\ p > 1 => ~IsDigit(name[p - 1])

\* C15, amended: for every title that contains 3.5 U+8A71 with no digit
\* right before it and no U+8A71 before it, and that contains neither U+7B2C
\* nor U+5DFB, the volume-only name is 3.5 U+8A71 for every digit width: the
\* number with a decimal point is not zero-padded.
C15_DecimalNotPadded ==
    (san.pc # "idle" /\ volumeOnly /\ Has35AsOnlyMatch(san.name)) =>
        san.result = N35W

\* A title with text around the chapter, sanitized with the largest width.
C15_Witness ==
    /\ san.pc = "once"
    /\ volumeOnly
    /\ volumeDigits = 4
    /\ san.name = <<"1", ".">> \o N35W
    /\ san.result = N35W

\* s has none of the characters of Forbidden, no whitespace but single
\* spaces, and no space at either end.
IsClean(s) ==
    /\ \A j \in 1..Len(s) : s[j] \notin Forbidden /\ (s[j] \in Whitespace => s[j] = " ")
    /\ \A j \in 1..(Len(s) - 1) : ~(s[j] = " " /\ s[j + 1] = " ")
    /\ s # <<>> => s[1] # " " /\ s[Len(s)] # " "

\* C16: without --volume-only, sanitizeFolderName applied to its own result
\* returns that result again; the result has _ for each forbidden character,
\* one space for each run of whitespace and no whitespace at its ends.
C16_DefaultIdempotent ==
    /\ (san.pc # "idle" /\ ~volumeOnly) =>
          /\ IsClean(san.result)
          /\ Len(san.result) <= Len(san.name)
    /\ (san.pc = "twice" /\ ~volumeOnly) => san.again = san.result

\* A title with a forbidden character and a run of three whitespace
\* characters between two others, sanitized twice.
C16_Witness ==
    /\ san.pc = "twice"
    /\ ~volumeOnly
    /\ san.name = <<":">> \o <<"\t", " ", "\n">> \o <<"x">>
    /\ san.result = <<"_", " ", "x">>
    /\ san.again = <<"_", " ", "x">>

(***************************************************************************)
(* Claims about the lookup key of getArticleMetadata, read off metaLog.    *)
(***************************************************************************)
\* u is bare ?magazine_key= K, bare and K without ? and &: the positions
\* of the marker at which that holds.
KeyedAt(u) ==
    {p \in 2..Len(u) :
        /\ OccursAt(u, KeyMarker, p)
        /\ p + 2 < Len(u)
        /\ \A q \in (1..(p - 1)) \cup ((p + 3)..Len(u)) : u[q] \notin {"?", "&"}}

Count(s, tok) == Cardinality({j \in 1..Len(s) : s[j] = tok})

\* C17: for a content URL bare?magazine_key=K the key extracted is K and
\* the lookup key requested is the percent-encoding of bare?magazine_key=K,
\* with one ? and one magazine_key in it; for a URL without magazine_key
\* the key extracted is empty.
C17_LookupKeyCanonical ==
    \A j \in 1..Len(metaLog) :
        LET u == metaLog[j].url
        IN  /\ \A p \in KeyedAt(u) :
                  /\ MagazineKey(u) = SubSeq(u, p + 3, Len(u))
                  /\ metaLog[j].key = EncodeURIComponent(u)
                  /\ Count(metaLog[j].key, "%3F") = 1
                  /\ Count(metaLog[j].key, "magazine_key") = 1
            /\ ~Includes(u, "magazine_key") => MagazineKey(u) = <<>>

(***************************************************************************)
(* Claims about the backoff of downloadImage, read off the calls DlSpec's  *)
(* driver noted.                                                           *)
(***************************************************************************)
\* C18: in the trace of a call, every attempt but the last is followed by
\* one backoff wait and then the next attempt, whether it failed by its
\* status or by a transport error; the trace ends with an attempt, and an
\* attempt that got status 200 is the last.
C18_OneWaitBetweenAttempts ==
    \A c \in DoneCalls :
        LET t == dlCalls[c].trace
        IN  /\ \A i \in 1..(Len(t) - 1) :
                  /\ IsRequest(t[i]) => t[i + 1] = "wait"
                  /\ t[i] = "wait" => IsRequest(t[i + 1])
                  /\ t[i] # "ok"
            /\ t # <<>> => IsRequest(t[1]) /\ IsRequest(t[Len(t)])

(***************************************************************************)
(* Claims about the materialization of main, checked on the runs of Spec.  *)
(***************************************************************************)
\* The asset requests that are out: that of downloadImage and those of the
\* addNextImage chains.
InFlight ==
    (IF dl.pc = "attempt" THEN 1 ELSE 0)
      + Cardinality({k \in 1..Len(chains) : chains[k].pc = "attempt"})

\* C11: at most one asset request is in flight, and once main is at item
\* k+1 the chain of item k neither requests nor waits to request: nothing
\* of item k is fetched, appended or counted any more, also after its
\* archive had an error.
C11_StrictlySequential ==
    /\ InFlight <= 1
    /\ \A k \in 1..(Len(chains) - 1) :
          k < item => chains[k].pc \notin {"attempt", "wait"}

\* C12: the step of main at an item whose archive exists leaves every
\* archive and every chain as it is, makes no request, adds the item's number
\* of images to downloadedCount and goes to the next item; the skipped item
\* never gets a chain or a result. (The one other step that moves main from
\* there is the end of the process by an output error of an earlier chain.)
C12_ExistingArchiveSkipsItem ==
    /\ [][(/\ useZip
           /\ mainPc = "items"
           /\ item <= Len(articleData)
           /\ ZipExists(ZipOf(item))
           /\ mainPc' # "crashed"
           /\ <<item, mainPc>>' # <<item, mainPc>>) =>
              /\ item' = item + 1
              /\ mainPc' = "items"
              /\ zipFiles' = zipFiles
              /\ chains' = chains
              /\ results' = results
              /\ downloadedCount' =
                    downloadedCount + Len(articleData[item].images)]_vars
    /\ [][\A k \in 1..Len(chains) :
              (useZip /\ k < item /\ chains[k].pc = "none") =>
                  chains'[k].pc = "none" /\ results'[k] = <<>>]_vars

\* A run over one item whose archive an earlier run left: the run is done,
\* the archive is as it was and the count is the item's number of images.
C12_Witness ==
    /\ useZip
    /\ mainPc = "done"
    /\ Len(articleData) = 1
    /\ Len(chains) = 1
    /\ chains[1].pc = "none"
    /\ results[1] = <<>>
    /\ [path |-> ZipOf(1), entries |-> <<>>, old |-> TRUE, closed |-> TRUE]
          \in zipFiles
    /\ downloadedCount = 3
    /\ Len(articleData[1].images) = 3

\* C13: an error of the output file or of the archive writer does not end
\* the run: the process does not die of it, and main is past the item whose
\* archive had the error.
C13_ArchiveErrorRecovered ==
    /\ mainPc # "crashed"
    /\ \A k \in 1..Len(chains) : chains[k].errored => item > k

IsPrefix(s, t) == Len(s) <= Len(t) /\ SubSeq(t, 1, Len(s)) = s

\* The parts of C19 that hold of every archive the run created: finalize
\* comes when every asset has a result, after it the chain makes no request
\* and the archive gets no entry, and a closed archive holds the entries of
\* the successes, whatever failed.
FinalizeAfterAllAttempts ==
    /\ [](\A k \in 1..Len(chains) :
            chains[k].pc \in {"finalized", "closed"} =>
                /\ Len(results[k]) = Len(articleData[k].images)
                /\ \A z \in zipFiles :
                      z.path = ZipOf(k) => z.entries = EntriesFor(k, results[k], 1))
    /\ [][\A k \in 1..Len(chains) :
              chains[k].pc \in {"finalized", "closed"} =>
                  /\ chains'[k].pc \in {"finalized", "closed"}
                  /\ chains[k].pc = "closed" => chains'[k].pc = "closed"
                  /\ results'[k] = results[k]
                  /\ \A z \in zipFiles : z.path = ZipOf(k) =>
                        \E y \in zipFiles' : y.path = z.path /\ y.entries = z.entries]_vars

\* C19 as stated: the above, and main is not at a later item before the
\* archive of an item it created is closed.
C19_FinalizeOnceThenNext ==
    /\ FinalizeAfterAllAttempts
    /\ [](\A k \in 1..Len(chains) :
            (useZip /\ k < item) => chains[k].pc \in {"none", "closed"})

\* C19, amended: finalize comes only after every asset was attempted and
\* not twice, a failed asset does not end the archive, nothing is appended
\* after finalize, and, unless the archive writer raised an error for that
\* archive, main is not at a later item before the archive it created has
\* been finalized and closed.
C19_FinalizeOnceThenNextUnlessError ==
    /\ FinalizeAfterAllAttempts
    /\ [](\A k \in 1..Len(chains) :
            (useZip /\ k < item /\ ~chains[k].errored) =>
                chains[k].pc \in {"none", "closed"})

\* Main is past an item whose archive was closed, without an error, with the
\* entries of two successes around an asset that failed.
C19_Witness ==
    /\ useZip
    /\ Len(chains) >= 1
    /\ item > 1
    /\ chains[1].pc = "closed"
    /\ ~chains[1].errored
    /\ results[1] = <<TRUE, FALSE, TRUE>>
    /\ \E z \in zipFiles : z.path = ZipOf(1) /\ z.closed /\ Len(z.entries) = 2

\* C20: a file that is there keeps its content and an archive that is there
\* is not emptied: it keeps its entries, an archive of an earlier run is left
\* as it is; of two items of a ZIP run whose archive paths collide the later
\* one is skipped.
C20_NeverRewrites ==
    /\ [][/\ \A f \in fs : f \in fs'
          /\ \A z \in zipFiles :
                /\ \E y \in zipFiles' :
                      /\ y.path = z.path
                      /\ y.old = z.old
                      /\ IsPrefix(z.entries, y.entries)
                /\ z.old => z \in zipFiles']_vars
    /\ [](\A j, k \in 1..Len(chains) :
            (useZip /\ j < k /\ k < item /\ ZipOf(j) = ZipOf(k)) =>
                chains[k].pc = "none" /\ results[k] = <<>>)

\* A directory run over two items whose titles sanitize alike, on a
\* directory where an earlier run left 002.jpg: that file is as it was, the
\* first item wrote 001.jpg, its third asset failed and the second item, two
\* assets long, wrote nothing.
C20_Witness ==
    /\ ~useZip
    /\ mainPc = "done"
    /\ Len(articleData) = 2
    /\ Len(results) = 2
    /\ SanitizeFolderName(articleData[1].title) = SanitizeFolderName(articleData[2].title)
    /\ articleData[1].images # articleData[2].images
    /\ results[1] = <<TRUE, TRUE, FALSE>>
    /\ results[2] = <<TRUE, TRUE>>
    /\ {f.data : f \in fs} = {OldData, articleData[1].images[1]}

=============================================================================
